---- MODULE Spec2Model ----
(***************************************************************************)
(* A model of tutorials/intro/Intro_Tutorial_2.ipynb: the notebook run     *)
(* top to bottom, cell by cell.  The corpus (the Document table) and the   *)
(* presence of 'CI' in the environment are the inputs.  Calls into the     *)
(* snorkel library (CandidateExtractor.apply, the Spouse query, the        *)
(* viewer) are modelled by their effect on the candidate table and by the  *)
(* record of the calls made.                                               *)
(***************************************************************************)
EXTENDS Integers, Sequences, FiniteSets, TLC

VARIABLES
    pc,              \* the cell (or loop) the run is at
    ci,              \* 'CI' in os.environ
    corpus,          \* the Document table, ordered by name: corpus[d][n] = ner_tags
    session,         \* SnorkelSession() was opened
    Spouse,          \* the Spouse candidate class was defined
    cand_extractor,  \* the CandidateExtractor was configured
    docs,            \* docs, as returned by the query
    ld,              \* len(docs)
    i,               \* index of the document the split loop is at (0-based)
    j,               \* index of the sentence within docs[i] (0-based)
    train_sents,
    dev_sents,
    test_sents,
    store,           \* the rows of the Spouse table
    applies,         \* the calls cand_extractor.apply(sents, split), in order
    train_cands,
    sv,
    viewers,         \* number of SentenceNgramViewer objects constructed
    selected_calls,  \* number of calls of sv.get_selected()
    c,
    k,               \* index of the dev/test loop
    np_arg,          \* argument of a direct call of number_of_people
    np_result        \* its result

vars == <<pc, ci, corpus, session, Spouse, cand_extractor, docs, ld, i, j,
          train_sents, dev_sents, test_sents, store, applies, train_cands,
          sv, viewers, selected_calls, c, k, np_arg, np_result>>

----------------------------------------------------------------------------
(* Bounds of the model *)

MaxDocs == 20

MaxSents == 60

MaxLen == 7

----------------------------------------------------------------------------
(* Values *)

\* the values of sv: not assigned yet, None, or a viewer over a list of candidates
SvUnset == [type |-> "unset"]

SvNone == [type |-> "NoneType"]

SentenceNgramViewer(cands) == [type |-> "SentenceNgramViewer", candidates |-> cands]

Unset == "unset"

NerTags == {"PERSON", "O", "LOCATION"}

\* the length of a slice train_cands[:300]
ViewerLimit == 300

\* the threshold of the sentence filter
PeopleLimit == 5

PER == "PERSON"

\* sentences with 0, 1, 2, 4, 5 and 6 mentions of people
Catalogue ==
    << <<"O", "O">>,
       <<"O", PER, PER, "O">>,
       <<PER, "O", PER, PER, PER>>,
       <<PER, "O", PER, "LOCATION", PER, PER, "O", PER>>,
       <<PER, "O", PER, "O", PER, "O", PER, "O", PER>>,
       <<PER, PER, "O", PER, "O", PER, "O", PER, "O", PER, "O", PER>> >>

\* a corpus of nd documents of ns sentences each
CorpusOf(nd, ns, shift, stride) ==
    [d \in 1..nd |->
        [n \in 1..ns |->
            Catalogue[((shift + stride * (d + n)) % Len(Catalogue)) + 1]]]

----------------------------------------------------------------------------
(* number_of_people *)

RECURSIVE np_loop(_, _, _, _)
np_loop(tags, pos, active_sequence, count) ==
    IF pos > Len(tags) THEN count
    ELSE LET tag == tags[pos] IN
         IF tag = "PERSON" /\ ~active_sequence
         THEN np_loop(tags, pos + 1, TRUE, count + 1)
         ELSE IF tag # "PERSON" /\ active_sequence
         THEN np_loop(tags, pos + 1, FALSE, count)
         ELSE np_loop(tags, pos + 1, active_sequence, count)

RECURSIVE np_loop_noreset(_, _, _, _)
np_loop_noreset(tags, pos, active_sequence, count) ==
    IF pos > Len(tags) THEN count
    ELSE IF tags[pos] = "PERSON" /\ ~active_sequence
         THEN np_loop_noreset(tags, pos + 1, TRUE, count + 1)
         ELSE np_loop_noreset(tags, pos + 1, active_sequence, count)

\* the function without the elif branch: active_sequence is never reset
number_of_people_noreset(tags) == np_loop_noreset(tags, 1, FALSE, 0)

number_of_people(tags) == np_loop(tags, 1, FALSE, 0)

----------------------------------------------------------------------------
(* Python floats: an IEEE-754 double in [0.5, 1) is its 53-bit significand,*)
(* kept as three limbs <<hi, mid, lo>> in base 2^18 (value = sig / 2^53).  *)

Limb == 262144

HiUnit == 131072

RECURSIVE Pow2(_)
Pow2(n) == IF n = 0 THEN 1 ELSE 2 * Pow2(n - 1)

RECURSIVE BitLen(_)
BitLen(n) == IF n = 0 THEN 0 ELSE 1 + BitLen(n \div 2)

\* the literals 0.8, 0.9 and 0.95 rounded to the nearest double
Float08 == <<104857, 157286, 104858>>
Float09 == <<117964, 209715, 52429>>
Float095 == <<124518, 104857, 157286>>

\* carry propagation between the limbs
Carry(f) ==
    LET lo  == f[3] % Limb
        m   == f[2] + (f[3] \div Limb)
        mid == m % Limb
        hi  == f[1] + (m \div Limb)
    IN <<hi, mid, lo>>

\* round a product to 53 significant bits, ties to even
Round53(f) ==
    LET s    == BitLen(f[1]) - 17
        unit == Pow2(s)
        rem  == f[3] % unit
        odd  == (f[3] \div unit) % 2 = 1
        up   == s > 0 /\ (2 * rem > unit \/ (2 * rem = unit /\ odd))
    IN Carry(<<f[1], f[2], f[3] - rem + (IF up THEN unit ELSE 0)>>)

\* float * int, for 1 <= n < 4096
FloatMulInt(f, n) == Round53(Carry(<<f[1] * n, f[2] * n, f[3] * n>>))

\* int < float
IntLessFloat(n, f) ==
    LET ip == f[1] \div HiUnit
    IN n < ip \/ (n = ip /\ (f[1] % HiUnit # 0 \/ f[2] # 0 \/ f[3] # 0))

----------------------------------------------------------------------------
(* The split of the documents *)

\* splits with the two branches of the conditional expression exchanged
splits_swapped(inCI) == IF inCI THEN <<Float09, Float095>> ELSE <<Float08, Float09>>

splits(inCI) == IF inCI THEN <<Float08, Float09>> ELSE <<Float09, Float095>>

\* the filter with <= in place of <
Retained_le(tags) == number_of_people(tags) <= PeopleLimit

\* the if of the inner loop
Retained(tags) == number_of_people(tags) < PeopleLimit

\* the chain with "if" in place of "elif"
Branch_if_if(idx, n, inCI) ==
    (IF IntLessFloat(idx, FloatMulInt(splits(inCI)[1], n)) THEN {"train"} ELSE {})
    \cup (IF IntLessFloat(idx, FloatMulInt(splits(inCI)[2], n)) THEN {"dev"} ELSE {"test"})

\* the if / elif / else chain: the sets that a retained sentence of docs[idx] is added to
Branch(idx, n, inCI) ==
    IF IntLessFloat(idx, FloatMulInt(splits(inCI)[1], n)) THEN {"train"}
    ELSE IF IntLessFloat(idx, FloatMulInt(splits(inCI)[2], n)) THEN {"dev"}
    ELSE {"test"}

----------------------------------------------------------------------------
(* The snorkel library, as the notebook uses it *)

TagsOf(s) == corpus[s[1] + 1][s[2] + 1]

\* the largest number of people mentioned by a sentence of the catalogue
MaxPeople ==
    CHOOSE m \in 0..Len(Catalogue[Len(Catalogue)]) :
        /\ \E n \in 1..Len(Catalogue) : number_of_people(Catalogue[n]) = m
        /\ \A n \in 1..Len(Catalogue) : number_of_people(Catalogue[n]) <= m

\* the ordered pairs of distinct mentions among n (symmetric_relations=False)
PersonPairs(n) == {pr \in (1..n) \X (1..n) : pr[1] < pr[2]}

\* the candidates of a set of sentences, tagged with a split
Extract(sents, split) ==
    UNION {{[sent |-> s, person1 |-> pr[1], person2 |-> pr[2], split |-> split] :
              pr \in PersonPairs(number_of_people(TagsOf(s)))} : s \in sents}

\* cand_extractor.apply(sents, split=split) on the Spouse table
ApplyExtractor(table, sents, split) == table \cup Extract(sents, split)

\* every possible row, in the order of (document, sentence, person1, person2)
RowAt(n, ns, split) ==
    LET per == MaxPeople * MaxPeople
        sn  == (n - 1) \div per
        pp  == (n - 1) % per
    IN [sent |-> <<sn \div ns, sn % ns>>,
        person1 |-> (pp \div MaxPeople) + 1, person2 |-> (pp % MaxPeople) + 1,
        split |-> split]

Reverse(seq) == [n \in 1..Len(seq) |-> seq[Len(seq) + 1 - n]]

\* session.query(Spouse).filter(Spouse.split == split).all(), in ascending order
QuerySplit(table, split) ==
    LET ns  == IF Len(corpus) = 0 THEN 1 ELSE Len(corpus[1])
        all == [n \in 1..(Len(corpus) * ns * MaxPeople * MaxPeople) |-> RowAt(n, ns, split)]
    IN SelectSeq(all, LAMBDA r : r \in table)

Min(a, b) == IF a < b THEN a ELSE b

\* train_cands[:300]
ViewerSlice(cands) == SubSeq(cands, 1, Min(ViewerLimit, Len(cands)))

----------------------------------------------------------------------------
(* The run of the notebook *)

Init ==
    /\ pc = "session"
    /\ ci \in BOOLEAN
    /\ \E nd \in 0..MaxDocs, ns \in 1..MaxSents, shift \in 0..(Len(Catalogue) - 1),
          stride \in 0..1 :
            /\ nd * ns <= MaxSents
            /\ nd = 0 => (ns = 1 /\ shift = 0 /\ stride = 0)
            /\ corpus = CorpusOf(nd, ns, shift, stride)
    /\ session = FALSE
    /\ Spouse = FALSE
    /\ cand_extractor = FALSE
    /\ docs = Unset
    /\ ld = Unset
    /\ i = 0
    /\ j = 0
    /\ train_sents = {}
    /\ dev_sents = {}
    /\ test_sents = {}
    /\ store = {}
    /\ applies = <<>>
    /\ train_cands = Unset
    /\ sv = SvUnset
    /\ viewers = 0
    /\ selected_calls = 0
    /\ c = Unset
    /\ k = 0
    /\ np_arg = <<>>
    /\ np_result = Unset

\* session = SnorkelSession()
OpenSession ==
    /\ pc = "session"
    /\ session' = TRUE
    /\ pc' = "schema"
    /\ UNCHANGED <<ci, corpus, Spouse, cand_extractor, docs, ld, i, j, train_sents,
                   dev_sents, test_sents, store, applies, train_cands, sv, viewers,
                   selected_calls, c, k, np_arg, np_result>>

\* Spouse = candidate_subclass('Spouse', ['person1', 'person2'])
DefineSchema ==
    /\ pc = "schema"
    /\ Spouse' = TRUE
    /\ pc' = "extractor"
    /\ UNCHANGED <<ci, corpus, session, cand_extractor, docs, ld, i, j, train_sents,
                   dev_sents, test_sents, store, applies, train_cands, sv, viewers,
                   selected_calls, c, k, np_arg, np_result>>

\* cand_extractor = CandidateExtractor(Spouse, ...)
ConfigureExtractor ==
    /\ pc = "extractor"
    /\ cand_extractor' = TRUE
    /\ pc' = "query_docs"
    /\ UNCHANGED <<ci, corpus, session, Spouse, docs, ld, i, j, train_sents,
                   dev_sents, test_sents, store, applies, train_cands, sv, viewers,
                   selected_calls, c, k, np_arg, np_result>>

\* docs = session.query(Document)...all(); ld = len(docs); the three empty sets
QueryDocs ==
    /\ pc = "query_docs"
    /\ docs' = corpus
    /\ ld' = Len(corpus)
    /\ train_sents' = {}
    /\ dev_sents' = {}
    /\ test_sents' = {}
    /\ i' = 0
    /\ j' = 0
    /\ pc' = "split_loop"
    /\ UNCHANGED <<ci, corpus, session, Spouse, cand_extractor, store, applies,
                   train_cands, sv, viewers, selected_calls, c, k, np_arg, np_result>>

\* one iteration of "for s in doc.sentences", within "for i, doc in enumerate(docs)"
SplitStep ==
    /\ pc = "split_loop"
    /\ i < ld
    /\ LET s  == <<i, j>>
           keep == Retained(docs[i + 1][j + 1])
           to == Branch(i, ld, ci)
       IN /\ train_sents' = IF keep /\ "train" \in to THEN train_sents \cup {s} ELSE train_sents
          /\ dev_sents' = IF keep /\ "dev" \in to THEN dev_sents \cup {s} ELSE dev_sents
          /\ test_sents' = IF keep /\ "test" \in to THEN test_sents \cup {s} ELSE test_sents
    /\ IF j + 1 < Len(docs[i + 1])
       THEN i' = i /\ j' = j + 1
       ELSE i' = i + 1 /\ j' = 0
    /\ UNCHANGED <<pc, ci, corpus, session, Spouse, cand_extractor, docs, ld, store,
                   applies, train_cands, sv, viewers, selected_calls, c, k, np_arg,
                   np_result>>

\* the split loop is exhausted
SplitDone ==
    /\ pc = "split_loop"
    /\ i >= ld
    /\ pc' = "apply_train"
    /\ UNCHANGED <<ci, corpus, session, Spouse, cand_extractor, docs, ld, i, j,
                   train_sents, dev_sents, test_sents, store, applies, train_cands, sv,
                   viewers, selected_calls, c, k, np_arg, np_result>>

\* the sentence set and the split of the first apply
TrainApplyArgs == [sents |-> train_sents, split |-> 0]

\* cand_extractor.apply(train_sents, split=0)
ApplyTrain ==
    /\ pc = "apply_train"
    /\ store' = ApplyExtractor(store, TrainApplyArgs.sents, TrainApplyArgs.split)
    /\ applies' = Append(applies, TrainApplyArgs)
    /\ pc' = "query_train"
    /\ UNCHANGED <<ci, corpus, session, Spouse, cand_extractor, docs, ld, i, j,
                   train_sents, dev_sents, test_sents, train_cands, sv, viewers,
                   selected_calls, c, k, np_arg, np_result>>

\* train_cands = session.query(Spouse).filter(Spouse.split == 0).all()
QueryTrain ==
    /\ pc = "query_train"
    /\ \E rows \in {QuerySplit(store, 0), Reverse(QuerySplit(store, 0))} :
          train_cands' = rows
    /\ pc' = "viewer"
    /\ UNCHANGED <<ci, corpus, session, Spouse, cand_extractor, docs, ld, i, j,
                   train_sents, dev_sents, test_sents, store, applies, sv, viewers,
                   selected_calls, c, k, np_arg, np_result>>

\* the guard of the viewer cell with its branches exchanged
OpensViewer_inverted(inCI) == inCI

\* if 'CI' not in os.environ
OpensViewer(inCI) == ~inCI

\* sv = SentenceNgramViewer(train_cands[:300], session), or sv = None
MakeViewer ==
    /\ pc = "viewer"
    /\ IF OpensViewer(ci)
       THEN /\ sv' = SentenceNgramViewer(ViewerSlice(train_cands))
            /\ viewers' = viewers + 1
       ELSE /\ sv' = SvNone
            /\ viewers' = viewers
    /\ pc' = "get_selected"
    /\ UNCHANGED <<ci, corpus, session, Spouse, cand_extractor, docs, ld, i, j,
                   train_sents, dev_sents, test_sents, store, applies, train_cands,
                   selected_calls, c, k, np_arg, np_result>>

\* if 'CI' not in os.environ: print(unicode(sv.get_selected()))
GetSelected ==
    /\ pc = "get_selected"
    /\ IF ~ci
       THEN IF sv.type # "SentenceNgramViewer"
            THEN pc' = "AttributeError" /\ selected_calls' = selected_calls
            ELSE pc' = "first_cand" /\ selected_calls' = selected_calls + 1
       ELSE pc' = "first_cand" /\ selected_calls' = selected_calls
    /\ UNCHANGED <<ci, corpus, session, Spouse, cand_extractor, docs, ld, i, j,
                   train_sents, dev_sents, test_sents, store, applies, train_cands, sv,
                   viewers, c, k, np_arg, np_result>>

\* c = train_cands[0]
FirstCandidate ==
    /\ pc = "first_cand"
    /\ IF Len(train_cands) = 0
       THEN pc' = "IndexError" /\ c' = c
       ELSE pc' = "dev_test_loop" /\ c' = train_cands[1]
    /\ k' = 0
    /\ UNCHANGED <<ci, corpus, session, Spouse, cand_extractor, docs, ld, i, j,
                   train_sents, dev_sents, test_sents, store, applies, train_cands, sv,
                   viewers, selected_calls, np_arg, np_result>>

\* the arguments with split=i in place of split=i+1
DevTestApplyArgs_offbyone(n) ==
    [sents |-> <<dev_sents, test_sents>>[n + 1], split |-> n]

\* iteration n of enumerate([dev_sents, test_sents]): apply(sents, split=n+1)
DevTestApplyArgs(n) ==
    [sents |-> <<dev_sents, test_sents>>[n + 1], split |-> n + 1]

\* one iteration of the loop over [dev_sents, test_sents]
ApplyDevTest ==
    /\ pc = "dev_test_loop"
    /\ k < 2
    /\ store' = ApplyExtractor(store, DevTestApplyArgs(k).sents, DevTestApplyArgs(k).split)
    /\ applies' = Append(applies, DevTestApplyArgs(k))
    /\ k' = k + 1
    /\ UNCHANGED <<pc, ci, corpus, session, Spouse, cand_extractor, docs, ld, i, j,
                   train_sents, dev_sents, test_sents, train_cands, sv, viewers,
                   selected_calls, c, np_arg, np_result>>

\* the loop over [dev_sents, test_sents] is exhausted: the end of the notebook
Finish ==
    /\ pc = "dev_test_loop"
    /\ k >= 2
    /\ pc' = "done"
    /\ UNCHANGED <<ci, corpus, session, Spouse, cand_extractor, docs, ld, i, j,
                   train_sents, dev_sents, test_sents, store, applies, train_cands, sv,
                   viewers, selected_calls, c, k, np_arg, np_result>>

Next ==
    \/ OpenSession
    \/ DefineSchema
    \/ ConfigureExtractor
    \/ QueryDocs
    \/ SplitStep
    \/ SplitDone
    \/ ApplyTrain
    \/ QueryTrain
    \/ MakeViewer
    \/ GetSelected
    \/ FirstCandidate
    \/ ApplyDevTest
    \/ Finish

Spec == Init /\ [][Next]_vars

----------------------------------------------------------------------------
(* number_of_people called on every sequence of tags up to MaxLen *)

TagSeqs == UNION {[1..n -> NerTags] : n \in 0..MaxLen}

InitNP ==
    /\ np_arg \in TagSeqs
    /\ np_result = Unset
    /\ pc = "call"
    /\ ci = FALSE
    /\ corpus = <<>>
    /\ session = FALSE
    /\ Spouse = FALSE
    /\ cand_extractor = FALSE
    /\ docs = Unset
    /\ ld = Unset
    /\ i = 0
    /\ j = 0
    /\ train_sents = {}
    /\ dev_sents = {}
    /\ test_sents = {}
    /\ store = {}
    /\ applies = <<>>
    /\ train_cands = Unset
    /\ sv = SvUnset
    /\ viewers = 0
    /\ selected_calls = 0
    /\ c = Unset
    /\ k = 0

CallNumberOfPeople ==
    /\ pc = "call"
    /\ np_result' = number_of_people(np_arg)
    /\ pc' = "returned"
    /\ UNCHANGED <<ci, corpus, session, Spouse, cand_extractor, docs, ld, i, j,
                   train_sents, dev_sents, test_sents, store, applies, train_cands, sv,
                   viewers, selected_calls, c, k, np_arg>>

NextNP == CallNumberOfPeople

SpecNP == InitNP /\ [][NextNP]_vars

----------------------------------------------------------------------------
(* Properties *)

\* the number of maximal runs of consecutive 'PERSON' tags
PersonRuns(tags) ==
    Cardinality({p \in 1..Len(tags) :
                    tags[p] = "PERSON" /\ (p = 1 \/ tags[p - 1] # "PERSON")})

AllSentences ==
    UNION {{<<d - 1, n - 1>> : n \in 1..Len(corpus[d])} : d \in 1..Len(corpus)}

\* the sentences the split loop has been through
Processed == {s \in AllSentences : s[1] < i \/ (s[1] = i /\ s[2] < j)}

InSplitLoop == pc = "split_loop"

LoopFinished ==
    pc \in {"apply_train", "query_train", "viewer", "get_selected", "first_cand",
            "dev_test_loop", "done", "IndexError", "AttributeError"}

TrainQueried ==
    pc \in {"viewer", "get_selected", "first_cand", "dev_test_loop", "done",
            "IndexError", "AttributeError"}

ViewerCellRun ==
    pc \in {"get_selected", "first_cand", "dev_test_loop", "done", "IndexError",
            "AttributeError"}

SelectedCellRun ==
    pc \in {"first_cand", "dev_test_loop", "done", "IndexError", "AttributeError"}

Terminated == pc \in {"done", "IndexError", "AttributeError"}

AllSplitSents == train_sents \cup dev_sents \cup test_sents

\* C1: a sentence with five or more runs of 'PERSON' tags is in none of train_sents,
\* dev_sents, test_sents, after every iteration of the split loop and after it
C1_FilteredOut ==
    /\ \A s \in AllSplitSents : PersonRuns(TagsOf(s)) < 5
    /\ (InSplitLoop \/ LoopFinished) =>
          \A s \in Processed : PersonRuns(TagsOf(s)) >= 5 => s \notin AllSplitSents

\* the loop went through the whole of a corpus that has sentences on both sides of
\* the filter
C1_Witness ==
    /\ pc = "apply_train"
    /\ \E s \in AllSentences : PersonRuns(TagsOf(s)) >= 5
    /\ \E s \in AllSentences : PersonRuns(TagsOf(s)) = 4 /\ s \in AllSplitSents

\* C2: number_of_people returns the number of maximal runs of 'PERSON' tags: 0 for
\* the empty sequence, one per run of adjacent tags, two for two separated tags
C2_CountsRuns ==
    pc = "returned" =>
        /\ np_result = PersonRuns(np_arg)
        /\ np_arg = <<>> => np_result = 0
        /\ (np_arg # <<>> /\ \A p \in 1..Len(np_arg) : np_arg[p] = "PERSON") => np_result = 1
        /\ (\E p, q, r \in 1..Len(np_arg) :
                /\ p < q /\ q < r
                /\ np_arg[p] = "PERSON" /\ np_arg[q] # "PERSON" /\ np_arg[r] = "PERSON")
             => np_result >= 2

\* a run of two tags followed, after another tag, by a second run
C2_Witness ==
    pc = "returned" /\ np_arg = <<"PERSON", "PERSON", "O", "PERSON">> /\ np_result = 2

\* C3: without 'CI', a retained sentence of document d is a train sentence iff
\* d < 0.9*ld, a dev sentence iff 0.9*ld <= d < 0.95*ld and a test sentence otherwise,
\* in exact arithmetic; for ld a multiple of 20 the groups are 90%, 5%, 5% of the documents
C3_NinetyFiveFive ==
    (~ci /\ (InSplitLoop \/ LoopFinished)) =>
        /\ \A s \in Processed : PersonRuns(TagsOf(s)) < 5 =>
              /\ s \in train_sents <=> 10 * s[1] < 9 * ld
              /\ s \in dev_sents <=> (10 * s[1] >= 9 * ld /\ 20 * s[1] < 19 * ld)
              /\ s \in test_sents <=> 20 * s[1] >= 19 * ld
        /\ \A d \in 0..(ld - 1) :
              /\ Branch(d, ld, ci) = {"train"} <=> 10 * d < 9 * ld
              /\ Branch(d, ld, ci) = {"dev"} <=> (10 * d >= 9 * ld /\ 20 * d < 19 * ld)
              /\ Branch(d, ld, ci) = {"test"} <=> 20 * d >= 19 * ld
        /\ (ld % 20 = 0 /\ LoopFinished) =>
              /\ 10 * Cardinality({d \in 0..(ld - 1) : Branch(d, ld, ci) = {"train"}}) = 9 * ld
              /\ 20 * Cardinality({d \in 0..(ld - 1) : Branch(d, ld, ci) = {"dev"}}) = ld
              /\ 20 * Cardinality({d \in 0..(ld - 1) : Branch(d, ld, ci) = {"test"}}) = ld

\* twenty documents split into 18, 1 and 1, each group with a retained sentence
C3_Witness ==
    /\ ~ci
    /\ pc = "apply_train"
    /\ ld = 20
    /\ {s[1] : s \in train_sents} = 0..17
    /\ {s[1] : s \in dev_sents} = {18}
    /\ {s[1] : s \in test_sents} = {19}

\* C4: the extractor is applied exactly three times, to train_sents with split 0,
\* dev_sents with split 1 and test_sents with split 2, in this order, after the
\* session, the schema, the extractor and the split loop, and the three sets do not
\* change once the first apply has run
C4_ThreeApplies ==
    /\ Len(applies) <= 3
    /\ \A n \in 1..Len(applies) :
          /\ applies[n].split = n - 1
          /\ applies[n].sents = <<train_sents, dev_sents, test_sents>>[n]
    /\ Len(applies) > 0 => (session /\ Spouse /\ cand_extractor /\ LoopFinished)
    /\ Terminated => Len(applies) = 3

\* C5: every stored candidate of split 0 comes from a sentence of train_sents, of
\* split 1 from dev_sents, of split 2 from test_sents, and the query on split 0
\* returns only candidates of train_sents
C5_SplitsMatchSets ==
    /\ \A r \in store :
          /\ r.split \in {0, 1, 2}
          /\ r.split = 0 => r.sent \in train_sents
          /\ r.split = 1 => r.sent \in dev_sents
          /\ r.split = 2 => r.sent \in test_sents
    /\ TrainQueried =>
          \A n \in 1..Len(train_cands) :
              train_cands[n].split = 0 /\ train_cands[n].sent \in train_sents

\* the three applies have run and each split has candidates
C5_Witness ==
    /\ pc = "done"
    /\ \A sp \in {0, 1, 2} : \E r \in store : r.split = sp
    /\ Len(train_cands) > 0

\* C6: with 'CI' no viewer is constructed, sv is None and get_selected is never
\* called; without 'CI' the viewer is constructed exactly once, after the query of
\* split 0, with the first min(300, len(train_cands)) elements of train_cands
C6_ViewerGuard ==
    /\ ci =>
          /\ viewers = 0
          /\ selected_calls = 0
          /\ sv.type # "SentenceNgramViewer"
          /\ ViewerCellRun => sv = SvNone
    /\ ~ci =>
          /\ viewers <= 1
          /\ viewers = 1 => (TrainQueried /\ Len(applies) >= 1 /\ applies[1].split = 0)
          /\ ViewerCellRun =>
                /\ viewers = 1
                /\ sv.type = "SentenceNgramViewer"
                /\ Len(sv.candidates) <= 300
                /\ Len(sv.candidates) = Min(300, Len(train_cands))
                /\ \A n \in 1..Len(sv.candidates) : sv.candidates[n] = train_cands[n]
          /\ SelectedCellRun => selected_calls = 1

\* a viewer over 300 of more than 300 candidates
C6_Witness ==
    /\ ~ci
    /\ pc = "done"
    /\ Len(train_cands) > 300
    /\ viewers = 1
    /\ Len(sv.candidates) = 300

\* C7: the three sets are pairwise disjoint after every iteration, and when the loop
\* ends their union is the set of the sentences with fewer than five people
C7_Partition ==
    /\ train_sents \cap dev_sents = {}
    /\ train_sents \cap test_sents = {}
    /\ dev_sents \cap test_sents = {}
    /\ InSplitLoop =>
          AllSplitSents = {s \in Processed : PersonRuns(TagsOf(s)) < 5}
    /\ LoopFinished =>
          AllSplitSents = {s \in AllSentences : PersonRuns(TagsOf(s)) < 5}

\* the loop has ended with sentences in each set and a sentence in none
C7_Witness ==
    /\ pc = "apply_train"
    /\ train_sents # {} /\ dev_sents # {} /\ test_sents # {}
    /\ AllSplitSents # AllSentences

====
